---- MODULE Spec2Model ----
(***************************************************************************)
(* TextTools (src/TextTools.h): in-place transforms of std::string buffers *)
(* through 256-entry lookup tables, and whitespace trimming.               *)
(*                                                                         *)
(* A char is modelled by its unsigned value 0..255 (every table access in  *)
(* the source goes through static_cast<unsigned char>).  A std::string is  *)
(* a sequence of such values; a pointer into it is its offset from data(). *)
(* Each scan loop iteration is one step, so that callers interleave at the *)
(* granularity of single buffer reads and writes.                          *)
(***************************************************************************)
EXTENDS Integers, Sequences, FiniteSets, TLC

\* ------------------------------------------------------------------ bounds
MaxLen == 3
MaxTrimLen == 4
MaxTrims == 2
MaxConcLen == 2

\* --------------------------------------------------------------- constants
TableSize == 256
REMOVAL_SENTINEL == 0
SPACE == 32
\* std::nullopt as the action of a CharModMap entry
NoValue == -1

CharRange == 0 .. (TableSize - 1)

\* ------------------------------------------------------------------ inputs
\* '\0', '-', 'a'
EditBytes == {0, 45, 97}
\* '\t', ' ', '`', 'a', 'b'
TrimBytes == {9, 32, 96, 97, 98}
RuleKeys == {45, 97}
\* remove, replace by '\0', replace by '!'
RuleActions == {NoValue, 0, 33}
ReplacementKeys == {45, 97}
\* '\0', '-', 'a' (the last two allow a swap of the two keys)
ReplacementValues == {0, 45, 97}

Strings(alphabet, n) == UNION {[1 .. k -> alphabet] : k \in 0 .. n}

EmptyMap == <<>>
CharModMaps == UNION {[K -> RuleActions] : K \in SUBSET RuleKeys}
ReplacementMaps == UNION {[K -> ReplacementValues] : K \in SUBSET ReplacementKeys}

\* The maps a program hands to the two wrappers.  The editor and the replacer
\* share no state, so one of the two maps is left empty.
Configurations ==
    {<<r, EmptyMap>> : r \in CharModMaps} \cup {<<EmptyMap, m>> : m \in ReplacementMaps}

\* The concurrent callers use '\0' and 'a', and maps with the one key 'a'.
ConcBytes == {0, 97}
ConcConfigurations ==
    {cfg \in Configurations : DOMAIN cfg[1] \subseteq {97} /\ DOMAIN cfg[2] \subseteq {97}}

Callers == {1, 2}

\* ----------------------------------------------------------- table builders
prepare_identity_table == [i \in CharRange |-> i]

\* The table entry a rule asks for.
TableEntry(action) == IF action # NoValue THEN action ELSE REMOVAL_SENTINEL

create_table_checked_never_identity(r) ==
    [lookup_table |-> [k \in DOMAIN r |-> TableEntry(r[k])] @@ prepare_identity_table,
     is_identity |-> FALSE]

create_table_checked_skip_zero(r) ==
    IF DOMAIN r = {}
    THEN [lookup_table |-> prepare_identity_table, is_identity |-> TRUE]
    ELSE [lookup_table |->
            [k \in {x \in DOMAIN r : r[x] # 0} |-> TableEntry(r[k])]
                @@ prepare_identity_table,
          is_identity |-> FALSE]

\* The identity table overwritten at the keys of the rules.
create_table_checked(r) ==
    IF DOMAIN r = {}
    THEN [lookup_table |-> prepare_identity_table, is_identity |-> TRUE]
    ELSE [lookup_table |-> [k \in DOMAIN r |-> TableEntry(r[k])] @@ prepare_identity_table,
          is_identity |-> FALSE]

create_replacement_table_zeroed(m) ==
    [k \in DOMAIN m |-> m[k]] @@ [i \in CharRange |-> 0]

create_replacement_table(m) ==
    [k \in DOMAIN m |-> m[k]] @@ prepare_identity_table

\* The members a constructor leaves in the object.
ReusableASCIICharEditor_flag_lost(r) ==
    [m_lookup_table |-> create_table_checked(r).lookup_table,
     m_is_identity |-> TRUE]

ReusableASCIICharEditor(r) ==
    [m_lookup_table |-> create_table_checked(r).lookup_table,
     m_is_identity |-> create_table_checked(r).is_identity]

ReusableCharReplacer(m) ==
    [m_is_empty |-> DOMAIN m = {},
     m_replacement_table |-> create_replacement_table(m)]

\* ------------------------------------------------------------ std::string
\* std::string::resize(n): truncates, or pads with '\0'.
resize_one_more(s, n) ==
    IF n + 1 <= Len(s) THEN SubSeq(s, 1, n + 1)
    ELSE s \o [i \in 1 .. (n + 1 - Len(s)) |-> 0]

resize(s, n) ==
    IF n <= Len(s) THEN SubSeq(s, 1, n)
    ELSE s \o [i \in 1 .. (n - Len(s)) |-> 0]

\* ------------------------------------------------------------------- trim
IS_TRIMMABLE(b) == b \in {32, 9, 10, 13, 12, 11, 96}

\* Offset of the first non-trimmable byte at or after i (Len(s) when none).
RECURSIVE FindFirstFrom(_, _)
FindFirstFrom(s, i) ==
    IF i < Len(s) /\ IS_TRIMMABLE(s[i + 1]) THEN FindFirstFrom(s, i + 1) ELSE i

FindFirst_one_only(s) ==
    IF 0 < Len(s) /\ IS_TRIMMABLE(s[1]) THEN 1 ELSE 0

FindFirst(s) == FindFirstFrom(s, 0)

\* Offset one past the last non-trimmable byte, never below first.
RECURSIVE FindLastFrom(_, _, _)
FindLastFrom(s, first, i) ==
    IF i > first /\ IS_TRIMMABLE(s[i]) THEN FindLastFrom(s, first, i - 1) ELSE i

FindLast_no_retreat(s, first) == Len(s)

FindLast(s, first) == FindLastFrom(s, first, Len(s))

\* The two cursors of the compacting scan of trim_all as the loop starts.
TrimCursors_swapped(first) == [read_ptr |-> 0, write_ptr |-> first]

TrimCursors(first) == [read_ptr |-> first, write_ptr |-> 0]

\* The frame holding a call's automatic variables: one per call.
Frame_static(c) == 1

Frame(c) == c

\* ------------------------------------------------------------------- state
VARIABLES
    rules, replacements,
    m_lookup_table, m_is_identity,
    m_is_empty, m_replacement_table,
    pc, fn, text, input,
    lookup_table, is_identity,
    read_ptr, write_ptr, last, previous_was_trimmable,
    ntrim

vars == <<rules, replacements, m_lookup_table, m_is_identity, m_is_empty,
          m_replacement_table, pc, fn, text, input, lookup_table, is_identity,
          read_ptr, write_ptr, last, previous_was_trimmable, ntrim>>

objects == <<rules, replacements, m_lookup_table, m_is_identity, m_is_empty,
             m_replacement_table>>

\* No table of its own: the call reads a member of a wrapper.
NoTable == <<>>

InitWith(configurations) ==
    /\ \E cfg \in configurations : rules = cfg[1] /\ replacements = cfg[2]
    /\ m_lookup_table = ReusableASCIICharEditor(rules).m_lookup_table
    /\ m_is_identity = ReusableASCIICharEditor(rules).m_is_identity
    /\ m_is_empty = ReusableCharReplacer(replacements).m_is_empty
    /\ m_replacement_table = ReusableCharReplacer(replacements).m_replacement_table
    /\ pc = [c \in Callers |-> "idle"]
    /\ fn = [c \in Callers |-> "none"]
    /\ text = [c \in Callers |-> <<>>]
    /\ input = [c \in Callers |-> <<>>]
    /\ lookup_table = [c \in Callers |-> NoTable]
    /\ is_identity = [c \in Callers |-> FALSE]
    /\ read_ptr = [c \in Callers |-> 0]
    /\ write_ptr = [c \in Callers |-> 0]
    /\ last = [c \in Callers |-> 0]
    /\ previous_was_trimmable = [c \in Callers |-> FALSE]
    /\ ntrim = [c \in Callers |-> 0]

Init == InitWith(Configurations)

\* Caller c holds no buffer and may call.
Idle(c) == pc[c] = "idle"

\* The caller keeps its buffer, the function that ran and what it was given.
caller == <<fn, text, input, ntrim>>

\* Caller c calls f on a buffer holding buf (its n-th successive trim_all).
Begin(c, f, buf, n) ==
    /\ fn' = [fn EXCEPT ![c] = f]
    /\ input' = [input EXCEPT ![c] = buf]
    /\ ntrim' = [ntrim EXCEPT ![c] = n]

\* The call returns: its automatic variables end with it.
Return(c) ==
    /\ pc' = [pc EXCEPT ![c] = "done"]
    /\ lookup_table' = [lookup_table EXCEPT ![c] = NoTable]
    /\ is_identity' = [is_identity EXCEPT ![c] = FALSE]
    /\ read_ptr' = [read_ptr EXCEPT ![Frame(c)] = 0]
    /\ write_ptr' = [write_ptr EXCEPT ![Frame(c)] = 0]
    /\ last' = [last EXCEPT ![Frame(c)] = 0]
    /\ previous_was_trimmable' = [previous_was_trimmable EXCEPT ![Frame(c)] = FALSE]

\* The caller is through with the buffer a call has returned.
Release(c) ==
    /\ pc[c] = "done"
    /\ pc' = [pc EXCEPT ![c] = "idle"]
    /\ fn' = [fn EXCEPT ![c] = "none"]
    /\ text' = [text EXCEPT ![c] = <<>>]
    /\ input' = [input EXCEPT ![c] = <<>>]
    /\ ntrim' = [ntrim EXCEPT ![c] = 0]
    /\ UNCHANGED <<objects, lookup_table, is_identity, read_ptr, write_ptr, last,
                   previous_was_trimmable>>

\* ------------------------------------------------- replace_and_remove (A)
\* Entry of replace_and_remove (line 73) on buffer buf; table and ident are the
\* locals of the one-shot function (none when the table is the editor's member).
replace_and_remove_enter(c, f, buf, table, ident) ==
    /\ Idle(c)
    /\ Begin(c, f, buf, 0)
    /\ text' = [text EXCEPT ![c] = buf]
    /\ IF buf = <<>> \/ ident
       THEN Return(c)
       ELSE /\ pc' = [pc EXCEPT ![c] = "scan"]
            /\ lookup_table' = [lookup_table EXCEPT ![c] = table]
            /\ is_identity' = [is_identity EXCEPT ![c] = ident]
            /\ read_ptr' = [read_ptr EXCEPT ![Frame(c)] = 0]
            /\ write_ptr' = [write_ptr EXCEPT ![Frame(c)] = 0]
            /\ UNCHANGED <<last, previous_was_trimmable>>
    /\ UNCHANGED objects

ascii_char_replace_remove_once(c, buf) ==
    replace_and_remove_enter(c, "ascii_char_replace_remove_once", buf,
                             create_table_checked(rules).lookup_table,
                             create_table_checked(rules).is_identity)

EditorApply(c, buf) ==
    replace_and_remove_enter(c, "ReusableASCIICharEditor::apply", buf,
                             NoTable, m_is_identity)

\* The table the running call of caller c reads.
TableOf(c) ==
    CASE fn[c] = "ReusableASCIICharEditor::apply" -> m_lookup_table
      [] fn[c] = "ReusableCharReplacer::apply" -> m_replacement_table
      [] OTHER -> lookup_table[c]

\* One iteration of the scan loop of replace_and_remove.
ScanStep(c) ==
    /\ pc[c] = "scan"
    /\ read_ptr[Frame(c)] < Len(text[c])
    /\ LET replacement == TableOf(c)[text[c][read_ptr[Frame(c)] + 1]]
       IN IF replacement # REMOVAL_SENTINEL
          THEN /\ text' = [text EXCEPT ![c][write_ptr[Frame(c)] + 1] = replacement]
               /\ write_ptr' = [write_ptr EXCEPT ![Frame(c)] = @ + 1]
          ELSE UNCHANGED <<text, write_ptr>>
    /\ read_ptr' = [read_ptr EXCEPT ![Frame(c)] = @ + 1]
    /\ UNCHANGED <<objects, pc, fn, input, ntrim, lookup_table, is_identity, last,
                   previous_was_trimmable>>

\* Loop exit of replace_and_remove and the final text.resize.
ScanResize(c) ==
    /\ pc[c] = "scan"
    /\ read_ptr[Frame(c)] >= Len(text[c])
    /\ text' = [text EXCEPT ![c] = resize(@, write_ptr[Frame(c)])]
    /\ Return(c)
    /\ UNCHANGED <<objects, fn, input, ntrim>>

\* ------------------------------------------------------ replace_chars (B)
\* The guard on the empty map (lines 156, 176), then the entry of replace_chars.
replace_chars_enter(c, f, buf, table, skip) ==
    /\ Idle(c)
    /\ Begin(c, f, buf, 0)
    /\ text' = [text EXCEPT ![c] = buf]
    /\ IF skip \/ buf = <<>>
       THEN Return(c)
       ELSE /\ pc' = [pc EXCEPT ![c] = "replace"]
            /\ lookup_table' = [lookup_table EXCEPT ![c] = table]
            /\ read_ptr' = [read_ptr EXCEPT ![Frame(c)] = 0]
            /\ UNCHANGED <<is_identity, write_ptr, last, previous_was_trimmable>>
    /\ UNCHANGED objects

ascii_replace_once(c, buf) ==
    replace_chars_enter(c, "ascii_replace_once", buf,
                        create_replacement_table(replacements),
                        DOMAIN replacements = {})

ReplacerApply(c, buf) ==
    replace_chars_enter(c, "ReusableCharReplacer::apply", buf, NoTable, m_is_empty)

\* One iteration of the range-for of replace_chars.
ReplaceStep(c) ==
    /\ pc[c] = "replace"
    /\ read_ptr[Frame(c)] < Len(text[c])
    /\ text' = [text EXCEPT ![c][read_ptr[Frame(c)] + 1] = TableOf(c)[@]]
    /\ read_ptr' = [read_ptr EXCEPT ![Frame(c)] = @ + 1]
    /\ UNCHANGED <<objects, pc, fn, input, ntrim, lookup_table, is_identity,
                   write_ptr, last, previous_was_trimmable>>

ReplaceEnd(c) ==
    /\ pc[c] = "replace"
    /\ read_ptr[Frame(c)] >= Len(text[c])
    /\ Return(c)
    /\ UNCHANGED <<objects, caller>>

\* ------------------------------------------------------------ trim_all (C)
\* Lines 193-231: the empty check, the two cursor searches, the scan set-up.
trim_all_enter(c, buf, n) ==
    /\ Begin(c, "trim_all", buf, n)
    /\ IF buf = <<>>
       THEN /\ text' = [text EXCEPT ![c] = buf]
            /\ Return(c)
       ELSE IF FindFirst(buf) = Len(buf)
       THEN /\ text' = [text EXCEPT ![c] = <<>>]
            /\ Return(c)
       ELSE /\ text' = [text EXCEPT ![c] = buf]
            /\ pc' = [pc EXCEPT ![c] = "trim_scan"]
            /\ last' = [last EXCEPT ![Frame(c)] = FindLast(buf, FindFirst(buf))]
            /\ read_ptr' = [read_ptr EXCEPT ![Frame(c)] = TrimCursors(FindFirst(buf)).read_ptr]
            /\ write_ptr' = [write_ptr EXCEPT ![Frame(c)] = TrimCursors(FindFirst(buf)).write_ptr]
            /\ previous_was_trimmable' = [previous_was_trimmable EXCEPT ![Frame(c)] = FALSE]
            /\ UNCHANGED <<lookup_table, is_identity>>
    /\ UNCHANGED objects

\* trim_all on a buffer the caller has just filled.
trim_all(c, buf) ==
    /\ Idle(c)
    /\ trim_all_enter(c, buf, 1)

\* trim_all again on the buffer a trim_all call has just returned.
trim_all_again(c) ==
    /\ pc[c] = "done"
    /\ fn[c] = "trim_all"
    /\ ntrim[c] < MaxTrims
    /\ trim_all_enter(c, text[c], ntrim[c] + 1)

\* One iteration of the compacting loop of trim_all.
TrimStep(c) ==
    /\ pc[c] = "trim_scan"
    /\ read_ptr[Frame(c)] < last[Frame(c)]
    /\ LET byte == text[c][read_ptr[Frame(c)] + 1]
           w == write_ptr[Frame(c)]
       IN IF IS_TRIMMABLE(byte)
          THEN IF ~previous_was_trimmable[Frame(c)]
               THEN /\ text' = [text EXCEPT ![c][w + 1] = SPACE]
                    /\ write_ptr' = [write_ptr EXCEPT ![Frame(c)] = w + 1]
                    /\ previous_was_trimmable' =
                         [previous_was_trimmable EXCEPT ![Frame(c)] = TRUE]
               ELSE UNCHANGED <<text, write_ptr, previous_was_trimmable>>
          ELSE /\ text' = [text EXCEPT ![c][w + 1] = byte]
               /\ write_ptr' = [write_ptr EXCEPT ![Frame(c)] = w + 1]
               /\ previous_was_trimmable' =
                    [previous_was_trimmable EXCEPT ![Frame(c)] = FALSE]
    /\ read_ptr' = [read_ptr EXCEPT ![Frame(c)] = @ + 1]
    /\ UNCHANGED <<objects, pc, fn, input, ntrim, lookup_table, is_identity, last>>

\* Loop exit of trim_all and the final input_text.resize.
TrimResize(c) ==
    /\ pc[c] = "trim_scan"
    /\ read_ptr[Frame(c)] >= last[Frame(c)]
    /\ text' = [text EXCEPT ![c] = resize(@, write_ptr[Frame(c)])]
    /\ Return(c)
    /\ UNCHANGED <<objects, fn, input, ntrim>>

\* ---------------------------------------------------------- specifications
\* One caller, every public entry point.
Next ==
    \/ \E buf \in Strings(EditBytes, MaxLen) : ascii_char_replace_remove_once(1, buf)
    \/ \E buf \in Strings(EditBytes, MaxLen) : EditorApply(1, buf)
    \/ \E buf \in Strings(EditBytes, MaxLen) : ascii_replace_once(1, buf)
    \/ \E buf \in Strings(EditBytes, MaxLen) : ReplacerApply(1, buf)
    \/ \E buf \in Strings(TrimBytes, MaxLen) : trim_all(1, buf)
    \/ ScanStep(1)
    \/ ScanResize(1)
    \/ ReplaceStep(1)
    \/ ReplaceEnd(1)
    \/ TrimStep(1)
    \/ TrimResize(1)
    \/ Release(1)

Spec == Init /\ [][Next]_vars

\* One caller trimming buffers, possibly the same buffer repeatedly.
InitTrim == InitWith({<<EmptyMap, EmptyMap>>})

NextTrim ==
    \/ \E buf \in Strings(TrimBytes, MaxTrimLen) : trim_all(1, buf)
    \/ trim_all_again(1)
    \/ TrimStep(1)
    \/ TrimResize(1)
    \/ Release(1)

SpecTrim == InitTrim /\ [][NextTrim]_vars

\* Two callers of the table transforms, each on a buffer of its own.
InitConc == InitWith(ConcConfigurations)

NextConc ==
    \E c \in Callers :
        \/ \E buf \in Strings(ConcBytes, MaxConcLen) : ascii_char_replace_remove_once(c, buf)
        \/ \E buf \in Strings(ConcBytes, MaxConcLen) : EditorApply(c, buf)
        \/ \E buf \in Strings(ConcBytes, MaxConcLen) : ascii_replace_once(c, buf)
        \/ \E buf \in Strings(ConcBytes, MaxConcLen) : ReplacerApply(c, buf)
        \/ ScanStep(c)
        \/ ScanResize(c)
        \/ ReplaceStep(c)
        \/ ReplaceEnd(c)
        \/ Release(c)

SpecConc == InitConc /\ [][NextConc]_vars

\* ------------------------------------------------------------- properties
EditFns == {"ascii_char_replace_remove_once", "ReusableASCIICharEditor::apply"}
ReplaceFns == {"ascii_replace_once", "ReusableCharReplacer::apply"}

Done(c) == pc[c] = "done"

Range(s) == {s[i] : i \in 1 .. Len(s)}

\* The in-order filter-map a rule set asks for: a byte whose rule has no
\* replacement is dropped, one whose rule has a replacement becomes it, any
\* other byte is kept.
RECURSIVE FilterMap(_, _)
FilterMap(s, r) ==
    IF s = <<>> THEN <<>>
    ELSE LET b == Head(s)
         IN (IF b \notin DOMAIN r THEN <<b>>
             ELSE IF r[b] = NoValue THEN <<>> ELSE <<r[b]>>)
            \o FilterMap(Tail(s), r)

\* C1: after a replace-or-remove transform the buffer is the in-order
\* filter-map of its original content under the rule set, for every buffer and
\* every rule set.
C1_FilterMap ==
    \A c \in Callers :
        Done(c) /\ fn[c] \in EditFns => text[c] = FilterMap(input[c], rules)

\* C4: a replace-or-remove transform and trim_all never lengthen the buffer; a
\* pure-replacement transform leaves its length as it was.
C4_Length ==
    \A c \in Callers :
        Done(c) =>
            /\ fn[c] \in EditFns \cup {"trim_all"} => Len(text[c]) <= Len(input[c])
            /\ fn[c] \in ReplaceFns => Len(text[c]) = Len(input[c])

C4_Witness ==
    \E c \in Callers :
        /\ Done(c)
        /\ fn[c] = "ReusableASCIICharEditor::apply"
        /\ 0 < Len(text[c])
        /\ Len(text[c]) < Len(input[c])

\* C5: after a pure-replacement transform the byte at every position i is
\* table[input[i]], the table being the identity overwritten at the keys of the
\* map only; nothing is removed or reordered and a byte mapped to 0x00 is
\* output as 0x00.
C5_Fidelity ==
    \A c \in Callers :
        Done(c) /\ fn[c] \in ReplaceFns =>
            /\ Len(text[c]) = Len(input[c])
            /\ \A i \in 1 .. Len(input[c]) :
                 text[c][i] = IF input[c][i] \in DOMAIN replacements
                              THEN replacements[input[c][i]]
                              ELSE input[c][i]

C5_Witness ==
    \E c \in Callers :
        /\ Done(c)
        /\ fn[c] = "ascii_replace_once"
        /\ \E i, j \in 1 .. Len(input[c]) :
             /\ input[c][i] # 0 /\ text[c][i] = 0
             /\ input[c][j] \notin DOMAIN replacements /\ text[c][j] = input[c][j]

\* C6: the identity flag is true exactly when the rule set is empty, and with
\* an empty rule set a replace-or-remove transform never enters the scan loop
\* and leaves the buffer unchanged.
C6_IdentityFastPath ==
    /\ create_table_checked(rules).is_identity <=> DOMAIN rules = {}
    /\ m_is_identity <=> DOMAIN rules = {}
    /\ \A c \in Callers :
         fn[c] \in EditFns /\ DOMAIN rules = {} =>
            pc[c] # "scan" /\ text[c] = input[c]

C6_Witness ==
    \E c \in Callers :
        /\ Done(c)
        /\ fn[c] = "ascii_char_replace_remove_once"
        /\ DOMAIN rules = {}
        /\ Len(input[c]) >= 2
        /\ 0 \in Range(input[c])
        /\ text[c] = input[c]

\* What one pass through a replace-or-remove table leaves of s.
RECURSIVE Compact(_, _)
Compact(s, table) ==
    IF s = <<>> THEN <<>>
    ELSE (IF table[Head(s)] = REMOVAL_SENTINEL THEN <<>> ELSE <<table[Head(s)]>>)
         \o Compact(Tail(s), table)

\* The keys a rule set maps to the replacement 0x00, and the rule set that
\* removes them instead.
ZeroKeys == {b \in DOMAIN rules : rules[b] = 0}
AsRemoval(r) == [b \in DOMAIN r |-> IF r[b] = 0 THEN NoValue ELSE r[b]]

\* C7: when a rule maps a byte b to the replacement 0x00, every occurrence of b
\* is dropped and no 0x00 is written: the scan reads the table of, and the
\* result is that of, the rule set that removes b.
C7_Sentinel ==
    \A c \in Callers :
        fn[c] \in EditFns /\ ZeroKeys # {} =>
            /\ pc[c] = "scan" =>
                 TableOf(c) = create_table_checked(AsRemoval(rules)).lookup_table
            /\ Done(c) =>
                 /\ text[c] = Compact(input[c],
                                      create_table_checked(AsRemoval(rules)).lookup_table)
                 /\ 0 \notin Range(text[c])
                 /\ Len(text[c]) <=
                      Len(input[c])
                        - Cardinality({i \in 1 .. Len(input[c]) : input[c][i] \in ZeroKeys})

C7_Witness ==
    \E c \in Callers :
        /\ Done(c)
        /\ fn[c] \in EditFns
        /\ \E i \in 1 .. Len(input[c]) : input[c][i] \in ZeroKeys
        /\ 0 < Len(text[c])
        /\ Len(text[c]) < Len(input[c])

\* C9: in the scan loops of replace_and_remove and trim_all the write cursor
\* is at or before the read cursor, both inside the buffer, no byte still to be
\* read has been overwritten, and the resized buffer is no longer than the
\* original.
C9_Cursors ==
    \A c \in Callers :
        /\ pc[c] \in {"scan", "trim_scan"} =>
             /\ 0 <= write_ptr[Frame(c)]
             /\ write_ptr[Frame(c)] <= read_ptr[Frame(c)]
             /\ read_ptr[Frame(c)] <= Len(text[c])
             /\ Len(text[c]) = Len(input[c])
             /\ \A i \in (read_ptr[Frame(c)] + 1) .. Len(text[c]) : text[c][i] = input[c][i]
        /\ pc[c] = "trim_scan" => last[Frame(c)] <= Len(text[c])
        /\ Done(c) /\ fn[c] \in EditFns \cup {"trim_all"} => Len(text[c]) <= Len(input[c])

C9_Witness ==
    \E c \in Callers :
        /\ pc[c] = "scan"
        /\ 0 < write_ptr[Frame(c)]
        /\ write_ptr[Frame(c)] < read_ptr[Frame(c)]
        /\ read_ptr[Frame(c)] < Len(text[c])
        /\ text[c] # input[c]

\* The trimmable bytes: space, tab, newline, carriage return, form feed,
\* vertical tab, backtick.
Trimmable == {32, 9, 10, 13, 12, 11, 96}

\* The k-th smallest member of a set of positions.
Kth(P, k) == CHOOSE i \in P : Cardinality({j \in P : j < i}) = k - 1

\* out is s trimmed: its bytes other than spaces are the non-trimmable bytes of
\* s in their order, it neither starts nor ends with a space, and two
\* successive ones are adjacent in out when they are adjacent in s and are one
\* space apart when a run of trimmable bytes separates them in s.
Trimmed(s, out) ==
    LET P == {i \in 1 .. Len(s) : s[i] \notin Trimmable}
        Q == {i \in 1 .. Len(out) : out[i] # SPACE}
        n == Cardinality(P)
    IN /\ Cardinality(Q) = n
       /\ \A k \in 1 .. n : out[Kth(Q, k)] = s[Kth(P, k)]
       /\ n = 0 => out = <<>>
       /\ n > 0 => Kth(Q, 1) = 1 /\ Kth(Q, n) = Len(out)
       /\ \A k \in 1 .. (n - 1) :
            Kth(Q, k + 1) - Kth(Q, k) = IF Kth(P, k + 1) - Kth(P, k) = 1 THEN 1 ELSE 2

\* C2: trim_all leaves the input without its leading and trailing trimmable
\* bytes, with every maximal interior run of trimmable bytes (a single tab
\* too) replaced by one space and every other byte kept in order; the result
\* neither starts nor ends with a trimmable byte, and is empty when the input
\* holds trimmable bytes only.
C2_Trim ==
    \A c \in Callers :
        Done(c) /\ fn[c] = "trim_all" =>
            /\ Trimmed(input[c], text[c])
            /\ text[c] # <<>> =>
                 text[c][1] \notin Trimmable /\ text[c][Len(text[c])] \notin Trimmable
            /\ Range(input[c]) \subseteq Trimmable => text[c] = <<>>

C2_Witness ==
    \E c \in Callers :
        /\ Done(c)
        /\ fn[c] = "trim_all"
        /\ input[c] = <<96, 97, 9, 98>>
        /\ text[c] = <<97, SPACE, 98>>

\* C3: trim_all applied to the buffer a trim_all call has just returned leaves
\* it as it is.
C3_Idempotent ==
    \A c \in Callers :
        Done(c) /\ fn[c] = "trim_all" /\ ntrim[c] >= 2 => text[c] = input[c]

C3_Witness ==
    \E c \in Callers :
        /\ Done(c)
        /\ fn[c] = "trim_all"
        /\ ntrim[c] = 2
        /\ Len(text[c]) >= 3
        /\ SPACE \in Range(text[c])
        /\ text[c] = input[c]

\* What apply of a wrapper leaves of buffer s when it runs alone.
AppliedAlone(f, s) ==
    CASE f = "ReusableASCIICharEditor::apply" ->
           IF m_is_identity THEN s ELSE Compact(s, m_lookup_table)
      [] f = "ReusableCharReplacer::apply" ->
           IF m_is_empty THEN s ELSE [i \in 1 .. Len(s) |-> m_replacement_table[s[i]]]

Wrappers == {"ReusableASCIICharEditor::apply", "ReusableCharReplacer::apply"}

OneShotOf(f) ==
    CASE f = "ReusableASCIICharEditor::apply" -> "ascii_char_replace_remove_once"
      [] f = "ReusableCharReplacer::apply" -> "ascii_replace_once"

\* No step writes a member of a wrapper.
WrappersUnchanged ==
    UNCHANGED <<m_lookup_table, m_is_identity, m_is_empty, m_replacement_table>>

SameAsOneShot ==
    \A c, d \in Callers :
        /\ Done(c) /\ fn[c] \in Wrappers
        /\ Done(d) /\ fn[d] = OneShotOf(fn[c])
        /\ input[c] = input[d]
        => text[c] = text[d]

\* C8: apply of a wrapper built from a map leaves a buffer as the one-shot
\* function called with that map leaves a buffer of the same content, whatever
\* was applied before, and no apply changes the stored table or flag.
C8_WrapperEquivalent == [](SameAsOneShot) /\ [][WrappersUnchanged]_vars

C8_Witness ==
    /\ Done(1) /\ fn[1] = "ReusableASCIICharEditor::apply"
    /\ Done(2) /\ fn[2] = "ascii_char_replace_remove_once"
    /\ input[1] = input[2]
    /\ Len(input[1]) >= 2
    /\ text[1] = text[2]
    /\ 0 < Len(text[1])
    /\ Len(text[1]) < Len(input[1])

ResultAsAlone ==
    \A c \in Callers :
        Done(c) /\ fn[c] \in Wrappers => text[c] = AppliedAlone(fn[c], input[c])

\* C10: when callers run apply of the same wrapper on buffers of their own,
\* under every interleaving of their scan steps each buffer ends with the
\* content its apply gives when run alone, and the shared table is never
\* written.
C10_SharedTable == [](ResultAsAlone) /\ [][WrappersUnchanged]_vars

\* Either caller is inside the scan of the same editor, both have read a byte,
\* and one has dropped a byte.
C10_Witness ==
    /\ \A c \in Callers :
         /\ pc[c] = "scan"
         /\ fn[c] = "ReusableASCIICharEditor::apply"
         /\ read_ptr[Frame(c)] > 0
    /\ input[1] # input[2]
    /\ write_ptr[Frame(1)] < read_ptr[Frame(1)]

====
